---- MODULE Spec2Model ----
(***************************************************************************)
(* Review scheduler of the study tool: the review endpoint of deck.rs and  *)
(* the SrsEngine of spaced_repetition_system.rs over the srs_reviews       *)
(* table.                                                                  *)
(*                                                                         *)
(* ease_factor is an f32 in the source.  Every f32 that occurs here is a   *)
(* dyadic rational, so it is held exactly as an integer count of a power   *)
(* of two (2^-29 for ease factors, 2^-24 for interval * 0.8), and          *)
(* every f32 operation is the exact result rounded to 24 significant bits, *)
(* ties to even, as IEEE 754 single precision does.                        *)
(***************************************************************************)
EXTENDS Integers, FiniteSets, Sequences, TLC

\* ------------------------------------------------------------------ bounds
MaxCalls == 2          \* requests served in one behaviour of Spec
MaxDrill == 7          \* consecutive reviews in one behaviour of SpecDrill
MaxConc == 2           \* requests served in one behaviour of SpecConc
MaxNow == 2            \* clock ticks that pass in one behaviour
TicksPerDay == 2       \* clock resolution: ticks in one day
MaxInterval == 120     \* a review is taken while the stored interval is at most this
MaxStudy == 3          \* requests served in one behaviour of SpecStudy
MaxQueryLen == 3       \* characters of a query
MaxDict == 2           \* entries of the dictionary
MaxEdits == 3          \* requests served in one behaviour of SpecDecks
MaxSimLen == 4         \* characters of a string given to similarity
MaxTextLen == 3        \* characters of a text given to a normalizer
MaxGrow == 16          \* consecutive reviews in one behaviour of SpecGrow

\* ------------------------------------------------------------ f32 numbers
Pow2(n) == 2 ^ n

\* the number of binary digits of x >= 0, for x below 2^31; at most 24 is
\* reported as 24
BitLen(x) ==
    IF x < Pow2(24) THEN 24
    ELSE IF x < Pow2(25) THEN 25
    ELSE IF x < Pow2(26) THEN 26
    ELSE IF x < Pow2(27) THEN 27
    ELSE IF x < Pow2(28) THEN 28
    ELSE IF x < Pow2(29) THEN 29
    ELSE IF x < Pow2(30) THEN 30
    ELSE 31

\* x rounded to a multiple of s, ties to the even multiple
RoundTiesEven(x, s) ==
    LET q == x \div s
        r == x % s
    IN  IF 2 * r < s THEN q * s
        ELSE IF 2 * r > s THEN (q + 1) * s
        ELSE IF q % 2 = 0 THEN q * s ELSE (q + 1) * s

\* the f32 nearest to the exact value x >= 0 (x counts a fixed power of two)
F32Mag(x) == IF BitLen(x) <= 24 THEN x ELSE RoundTiesEven(x, Pow2(BitLen(x) - 24))

F32Round(x) == IF x < 0 THEN 0 - F32Mag(0 - x) ELSE F32Mag(x)

\* the place value of the last of the 24 significant bits of the f32 x
F32Step(x) == IF BitLen(x) <= 24 THEN 1 ELSE Pow2(BitLen(x) - 24)

One29 == Pow2(29)           \* 1.0 in units of 2^-29
One24 == Pow2(24)           \* 1.0 in units of 2^-24
F32_0_1 == 53687092        \* 0.1f32  = 0x3DCCCCCD, in units of 2^-29
F32_0_08 == 42949672       \* 0.08f32 = 0x3DA3D70A, in units of 2^-29
F32_1_3 == 697932160       \* 1.3f32  = 0x3FA66666, in units of 2^-29
F32_2_5 == 1342177280      \* 2.5f32  = 0x40200000, in units of 2^-29
F32_0_8 == 13421773        \* 0.8f32  = 0x3F4CCCCD, in units of 2^-24

Max(a, b) == IF a >= b THEN a ELSE b

\* f32::round of the f32 x (in units of 1/one): half away from zero; x >= 0
RoundHalfAway(x, one) == (x + one \div 2) \div one

\* ------------------------------------------------------------- the domain
Users == {1, 2}
NoUser == 0
Sessions == Users \cup {NoUser}      \* what the session cookie resolves to
DeckIds == {1, 2, 3}
NoDeck == 9
AnyDeck == DeckIds \cup {NoDeck}     \* the deck ids a path may carry
WordIds == {1, 2}
DeckWordIds == {1, 2, 3}           \* the words that are in some deck
Performances == 0 .. 6
Faults == {"none", "pool", "decks", "deck_words", "select", "upsert"}
Workers == {1, 2}
ConcPerformances == {0, 2, 5}    \* the ratings sent in SpecConc
ConcFaults == {"none", "select", "upsert"}
StudyPerformances == {1, 5}      \* the ratings sent in SpecStudy
StudyFaults == {"none", "pool", "decks", "deck_words"}
DueFaults == {"none", "pool", "select"}
DeckFaults == {"none", "pool", "decks", "write"}

VARIABLES dict,         \* the dictionary loaded at startup: a sequence of DictEntry
          decks,        \* table decks: rows [deck_id, user_id]
          deck_words,   \* table deck_words: pairs <<deck_id, word_id>>
          srs_reviews,  \* table srs_reviews
          now,          \* Utc::now(), in ticks
          calls,        \* requests served so far
          response,     \* the last response: [handler, status], and body if it has one
          store_ops,    \* store operations the last request got to
          request,      \* the payload of the last request: performance, or [q, lang]
          inflight      \* per worker: the request it is serving, between statements

vars == <<dict, decks, deck_words, srs_reviews, now, calls, response, store_ops, request,
          inflight>>

\* ---------------------------------------------------------------- SrsEngine
\* the superseded calibration: ease from performance buckets, interval 1
initial_srs_parameters_buckets(performance) ==
    LET ease_factor == CASE performance \in {0, 1, 2} -> 4 * (One29 \div 2)
                         [] performance = 3 -> 9646899 * 128
                         [] OTHER -> 5 * (One29 \div 2)
    IN  <<1, ease_factor>>

initial_srs_parameters(performance) ==
    LET ease_factor == F32_2_5
        interval == CASE performance = 1 -> 1
                      [] performance = 2 -> 1
                      [] performance = 3 -> 3
                      [] performance = 4 -> 5
                      [] performance = 5 -> 7
                      [] OTHER -> 1
    IN  <<interval, ease_factor>>

\* the ease update without its floor
new_ease_factor_unfloored(performance, previous_ease) ==
    LET t == F32Round((5 - performance) * F32_0_08)
        d == F32Round(F32_0_1 - t)
    IN  F32Round(previous_ease + d)

\* the ease update counting the ratings from 4 down
new_ease_factor_from_4(performance, previous_ease) ==
    LET t == F32Round((4 - performance) * F32_0_08)
        d == F32Round(F32_0_1 - t)
    IN  Max(F32Round(previous_ease + d), F32_1_3)

\* previous_ease + (0.1 - (5 - performance) as f32 * 0.08), then .max(1.3)
new_ease_factor(performance, previous_ease) ==
    LET t == F32Round((5 - performance) * F32_0_08)
        d == F32Round(F32_0_1 - t)
    IN  Max(F32Round(previous_ease + d), F32_1_3)

\* (previous_interval as f32 * 0.8).max(1.0) as i32
hard_interval(previous_interval) ==
    Max(F32Round(previous_interval * F32_0_8), One24) \div One24

I32_MAX == 2147483647       \* i32::MAX, which a float-to-int cast saturates at

\* the number of binary digits of x, for 0 <= x < 2^30
Bits(x) == CHOOSE n \in 0 .. 30 : x < Pow2(n) /\ (n = 0 \/ x >= Pow2(n - 1))

\* (previous_interval as f32 * ease_factor).round() as i32 for an interval of
\* any size below 2^31 - 64: the interval is rounded to an f32, the 48-bit
\* product of the two significands is taken in halves of 12 bits and rounded
\* to 24 bits, ties to even, the f32 is rounded to an integer, half away
\* from zero, and the cast saturates
wide_interval(previous_interval, ease_factor) ==
    LET fi == F32Mag(previous_interval)
        ei == BitLen(fi) - 24
        ee == BitLen(ease_factor) - 24
        mi == fi \div Pow2(ei)
        me == ease_factor \div Pow2(ee)
        x1 == mi \div 4096
        x0 == mi % 4096
        y1 == me \div 4096
        y0 == me % 4096
        mid == x1 * y0 + x0 * y1
        low == (mid % 4096) * 4096 + x0 * y0
        hi == x1 * y1 + mid \div 4096 + low \div Pow2(24)
        lo == low % Pow2(24)
        \* the product of the significands is hi * 2^24 + lo
        k == IF hi > 0 THEN Bits(hi) ELSE 0
        q == hi * Pow2(24 - k) + lo \div Pow2(k)
        r == lo % Pow2(k)
        m == IF k = 0 \/ 2 * r < Pow2(k) THEN q
             ELSE IF 2 * r > Pow2(k) THEN q + 1
             ELSE IF q % 2 = 0 THEN q ELSE q + 1
        \* the f32 product is m * 2^e
        e == k + ei + ee - 29
    IN  IF e < 0 THEN RoundHalfAway(m, Pow2(0 - e))
        ELSE IF BitLen(m) + e > 31 THEN I32_MAX
        ELSE m * Pow2(e)

\* (previous_interval as f32 * ease_factor).round() as i32; the product is
\* taken in one piece where that fits
good_interval(previous_interval, ease_factor) ==
    IF previous_interval >= 128 THEN wide_interval(previous_interval, ease_factor)
    ELSE
    LET s == F32Step(ease_factor)
        product == F32Round(previous_interval * (ease_factor \div s))
    IN  RoundHalfAway(product, One29 \div s)

\* the interval grown by the ease factor of before the review
calculate_srs_parameters_old_ease(performance, previous_interval, previous_ease) ==
    LET ease_factor == new_ease_factor(performance, previous_ease)
        interval == CASE performance = 1 -> 1
                      [] performance = 2 -> hard_interval(previous_interval)
                      [] performance \in {3, 4, 5} ->
                             good_interval(previous_interval, previous_ease)
                      [] OTHER -> previous_interval
    IN  <<interval, ease_factor>>

\* the rating 1 resetting the interval and leaving the ease factor alone
calculate_srs_parameters_hard_reset(performance, previous_interval, previous_ease) ==
    LET ease_factor == IF performance = 1 THEN previous_ease
                       ELSE new_ease_factor(performance, previous_ease)
        interval == CASE performance = 1 -> 1
                      [] performance = 2 -> hard_interval(previous_interval)
                      [] performance \in {3, 4, 5} ->
                             good_interval(previous_interval, ease_factor)
                      [] OTHER -> previous_interval
    IN  <<interval, ease_factor>>

\* the penalty of the rating 2 taken for the rating 3 as well
calculate_srs_parameters_hard_from_3(performance, previous_interval, previous_ease) ==
    LET ease_factor == new_ease_factor(performance, previous_ease)
        interval == CASE performance = 1 -> 1
                      [] performance \in {2, 3} -> hard_interval(previous_interval)
                      [] performance \in {4, 5} ->
                             good_interval(previous_interval, ease_factor)
                      [] OTHER -> previous_interval
    IN  <<interval, ease_factor>>

calculate_srs_parameters(performance, previous_interval, previous_ease) ==
    LET ease_factor == new_ease_factor(performance, previous_ease)
        interval == CASE performance = 1 -> 1
                      [] performance = 2 -> hard_interval(previous_interval)
                      [] performance \in {3, 4, 5} ->
                             good_interval(previous_interval, ease_factor)
                      [] OTHER -> previous_interval
    IN  <<interval, ease_factor>>

\* the rows of one user, deck and word; the latest review_date first
get_last_review(rows, user_id, deck_id, word_id) ==
    LET found == {r \in rows : r.user_id = user_id /\ r.deck_id = deck_id
                               /\ r.word_id = word_id}
    IN  IF found = {} THEN {}
        ELSE {CHOOSE r \in found :
                 \A q \in found : \/ q.review_date < r.review_date
                                  \/ /\ q.review_date = r.review_date
                                     /\ q.review_id <= r.review_id}

next_review_id(rows) ==
    IF rows = {} THEN 1
    ELSE 1 + (CHOOSE n \in {r.review_id : r \in rows} :
                 \A r \in rows : r.review_id <= n)

\* a plain INSERT, without the conflict clause
upsert_insert_only(rows, new) == rows \cup {new}

\* a conflict clause that sets the dates and the performance only
upsert_dates_only(rows, new) ==
    IF \E r \in rows : r.user_id = new.user_id /\ r.word_id = new.word_id
    THEN {IF r.user_id = new.user_id /\ r.word_id = new.word_id
          THEN [r EXCEPT !.review_date = new.review_date,
                         !.next_review_date = new.next_review_date,
                         !.performance = new.performance]
          ELSE r : r \in rows}
    ELSE rows \cup {new}

\* INSERT ... ON CONFLICT (user_id, word_id) DO UPDATE SET ...
upsert(rows, new) ==
    IF \E r \in rows : r.user_id = new.user_id /\ r.word_id = new.word_id
    THEN {IF r.user_id = new.user_id /\ r.word_id = new.word_id
          THEN [new EXCEPT !.review_id = r.review_id]
          ELSE r : r \in rows}
    ELSE rows \cup {new}

\* SrsEngine::record_review up to the upsert: the select of the last review
\* and the parameters computed from it
srs_parameters(rows, user_id, deck_id, word_id, performance) ==
    LET last_review == get_last_review(rows, user_id, deck_id, word_id)
    IN  IF last_review = {}
        THEN initial_srs_parameters(performance)
        ELSE LET review == CHOOSE r \in last_review : TRUE
             IN  calculate_srs_parameters(performance, review.interval,
                                          review.ease_factor)

\* SrsEngine::record_review from the reading of the clock on: the table after
\* the upsert of the parameters params = <<interval, ease_factor>>
write_review(rows, user_id, deck_id, word_id, performance, params, clock) ==
    LET interval == params[1]
        ease_factor == params[2]
        next_review_date == clock + interval * TicksPerDay
    IN  upsert(rows, [review_id |-> next_review_id(rows),
                      word_id |-> word_id,
                      deck_id |-> deck_id,
                      user_id |-> user_id,
                      review_date |-> clock,
                      next_review_date |-> next_review_date,
                      ease_factor |-> ease_factor,
                      interval |-> interval,
                      performance |-> performance])

\* SrsEngine::record_review: the table after the call
record_review(rows, user_id, deck_id, word_id, performance, clock) ==
    write_review(rows, user_id, deck_id, word_id, performance,
                 srs_parameters(rows, user_id, deck_id, word_id, performance),
                 clock)

\* ------------------------------------------------------------ the handlers
\* the range check letting 0 through
ValidPerformance_from_0(performance) == ~(performance < 0 \/ performance > 5)

ValidPerformance(performance) == ~(performance < 1 \/ performance > 5)

Reply(status) == [handler |-> "record_word_review", status |-> status]

\* the checks without the comparison of the deck's owner with the session
precheck_any_owner(session, deck_id, word_id, performance, fault) ==
    LET owner == {d.user_id : d \in {x \in decks : x.deck_id = deck_id}}
    IN  IF ~ValidPerformance(performance)
        THEN [status |-> "BAD_REQUEST", ops |-> 0]
        ELSE IF session = NoUser
        THEN [status |-> "UNAUTHORIZED", ops |-> 0]
        ELSE IF fault = "pool"
        THEN [status |-> "INTERNAL_SERVER_ERROR", ops |-> 1]
        ELSE IF fault = "decks" \/ owner = {}
        THEN [status |-> "FORBIDDEN", ops |-> 2]
        ELSE IF fault = "deck_words"
        THEN [status |-> "INTERNAL_SERVER_ERROR", ops |-> 3]
        ELSE IF <<deck_id, word_id>> \notin deck_words
        THEN [status |-> "NOT_FOUND", ops |-> 3]
        ELSE [status |-> "PASS", ops |-> 3]

\* record_word_review up to the call of the engine: the status it returns
\* with and the store operations it got to, or PASS
precheck(session, deck_id, word_id, performance, fault) ==
    LET owner == {d.user_id : d \in {x \in decks : x.deck_id = deck_id}}
    IN  IF ~ValidPerformance(performance)
        THEN [status |-> "BAD_REQUEST", ops |-> 0]
        ELSE IF session = NoUser
        THEN [status |-> "UNAUTHORIZED", ops |-> 0]
        ELSE IF fault = "pool"
        THEN [status |-> "INTERNAL_SERVER_ERROR", ops |-> 1]
        ELSE IF fault = "decks" \/ owner = {}
        THEN [status |-> "FORBIDDEN", ops |-> 2]
        ELSE IF owner # {session}
        THEN [status |-> "FORBIDDEN", ops |-> 2]
        ELSE IF fault = "deck_words"
        THEN [status |-> "INTERNAL_SERVER_ERROR", ops |-> 3]
        ELSE IF <<deck_id, word_id>> \notin deck_words
        THEN [status |-> "NOT_FOUND", ops |-> 3]
        ELSE [status |-> "PASS", ops |-> 3]

\* the handler over a write that fails after the row was stored
record_word_review_failing_late(session, deck_id, word_id, performance, fault) ==
    LET check == precheck(session, deck_id, word_id, performance, fault)
    IN
    /\ calls' = calls + 1
    /\ request' = performance
    /\ UNCHANGED <<dict, decks, deck_words, now, inflight>>
    /\ IF check.status # "PASS"
       THEN /\ response' = Reply(check.status)
            /\ store_ops' = check.ops
            /\ UNCHANGED srs_reviews
       ELSE IF fault = "select"
       THEN /\ response' = Reply("INTERNAL_SERVER_ERROR")
            /\ store_ops' = 4
            /\ UNCHANGED srs_reviews
       ELSE /\ response' = Reply(IF fault = "upsert" THEN "INTERNAL_SERVER_ERROR"
                                 ELSE "OK")
            /\ store_ops' = 5
            /\ srs_reviews' = record_review(srs_reviews, session, deck_id, word_id,
                                            performance, now)

\* the days from the day the clock starts to the last day of chrono's
\* NaiveDateTime, the end of the year 262142, for a clock that starts in 2025
MaxDays == 95006149

\* now + Duration::days(interval as i64) panics where the sum is past the
\* last NaiveDateTime
date_overflows(interval, clock) ==
    interval > (MaxDays * TicksPerDay - clock) \div TicksPerDay

\* POST /api/decks/{deck_id}/words/{word_id}/review, served without another
\* request in between.  Where record_review panics the task of the request
\* ends and the client gets no response: the status PANIC stands for that.
record_word_review(session, deck_id, word_id, performance, fault) ==
    LET check == precheck(session, deck_id, word_id, performance, fault)
        params == srs_parameters(srs_reviews, session, deck_id, word_id, performance)
    IN
    /\ calls' = calls + 1
    /\ request' = performance
    /\ UNCHANGED <<dict, decks, deck_words, now, inflight>>
    /\ IF check.status # "PASS"
       THEN /\ response' = Reply(check.status)
            /\ store_ops' = check.ops
            /\ UNCHANGED srs_reviews
       ELSE IF fault = "select"
       THEN /\ response' = Reply("INTERNAL_SERVER_ERROR")
            /\ store_ops' = 4
            /\ UNCHANGED srs_reviews
       ELSE IF date_overflows(params[1], now)
       THEN /\ response' = Reply("PANIC")
            /\ store_ops' = 4
            /\ UNCHANGED srs_reviews
       ELSE IF fault = "upsert"
       THEN /\ response' = Reply("INTERNAL_SERVER_ERROR")
            /\ store_ops' = 5
            /\ UNCHANGED srs_reviews
       ELSE /\ response' = Reply("OK")
            /\ store_ops' = 5
            /\ srs_reviews' = write_review(srs_reviews, session, deck_id, word_id,
                                           performance, params, now)

\* time passes
Tick ==
    /\ now < MaxNow
    /\ now' = now + 1
    /\ UNCHANGED <<dict, decks, deck_words, srs_reviews, calls, response, store_ops, request,
                   inflight>>

\* the same handler, one store statement at a time, on a worker of the pool
Idle == [pc |-> "idle"]

begin_review(worker, session, deck_id, word_id, performance, fault) ==
    LET check == precheck(session, deck_id, word_id, performance, fault)
    IN
    /\ inflight[worker].pc \in {"idle", "done"}
    /\ calls' = calls + 1
    /\ request' = performance
    /\ UNCHANGED <<dict, decks, deck_words, now, srs_reviews>>
    /\ IF check.status # "PASS"
       THEN /\ response' = Reply(check.status)
            /\ store_ops' = check.ops
            /\ inflight' = [inflight EXCEPT ![worker] = Idle]
       ELSE /\ inflight' = [inflight EXCEPT ![worker] =
                               [pc |-> "select", user_id |-> session,
                                deck_id |-> deck_id, word_id |-> word_id,
                                performance |-> performance, fault |-> fault,
                                found |-> FALSE, interval |-> 0, ease_factor |-> 0]]
            /\ UNCHANGED <<response, store_ops>>

select_review(worker) ==
    LET req == inflight[worker]
        params == srs_parameters(srs_reviews, req.user_id, req.deck_id, req.word_id,
                                 req.performance)
    IN
    /\ req.pc = "select"
    /\ UNCHANGED <<dict, decks, deck_words, now, srs_reviews, calls, request>>
    /\ IF req.fault = "select"
       THEN /\ response' = Reply("INTERNAL_SERVER_ERROR")
            /\ store_ops' = 4
            /\ inflight' = [inflight EXCEPT ![worker] = Idle]
       ELSE /\ inflight' = [inflight EXCEPT ![worker] =
                               [req EXCEPT !.pc = "upsert",
                                           !.found = get_last_review(srs_reviews,
                                                        req.user_id, req.deck_id,
                                                        req.word_id) # {},
                                           !.interval = params[1],
                                           !.ease_factor = params[2]]]
            /\ UNCHANGED <<response, store_ops>>

upsert_review(worker) ==
    LET req == inflight[worker]
    IN
    /\ req.pc = "upsert"
    /\ UNCHANGED <<dict, decks, deck_words, now, calls, request>>
    /\ store_ops' = IF date_overflows(req.interval, now) THEN 4 ELSE 5
    /\ IF date_overflows(req.interval, now)
       THEN /\ response' = Reply("PANIC")
            /\ inflight' = [inflight EXCEPT ![worker] = Idle]
            /\ UNCHANGED srs_reviews
       ELSE IF req.fault = "upsert"
       THEN /\ response' = Reply("INTERNAL_SERVER_ERROR")
            /\ inflight' = [inflight EXCEPT ![worker] = Idle]
            /\ UNCHANGED srs_reviews
       ELSE /\ response' = Reply("OK")
            /\ inflight' = [inflight EXCEPT ![worker] = [req EXCEPT !.pc = "done"]]
            /\ srs_reviews' = write_review(srs_reviews, req.user_id, req.deck_id,
                                           req.word_id, req.performance,
                                           <<req.interval, req.ease_factor>>, now)

\* ------------------------------------------------------- the study lists
\* the orders in which a query without ORDER BY may return the set S
Orders(S) ==
    {f \in [1 .. Cardinality(S) -> S] :
        \A i, j \in 1 .. Cardinality(S) : i # j => f[i] # f[j]}

Front(v) == SubSeq(v, 1, Len(v) - 1)

ReplyWith(handler, status, body) ==
    [handler |-> handler, status |-> status, body |-> body]

\* the StudyWord start_study_session builds for a word of the deck:
\* last_review is get_last_review(..).ok(), None when the read failed
StudyWord(user_id, deck_id, word_id, failed) ==
    LET last_review == IF failed THEN [is_none |-> TRUE, review |-> {}]
                       ELSE [is_none |-> FALSE,
                             review |-> get_last_review(srs_reviews, user_id,
                                                        deck_id, word_id)]
    IN  [word_id |-> word_id,
         deck_id |-> deck_id,
         is_new |-> last_review.is_none,
         last_performance |-> {r.performance : r \in last_review.review},
         next_review |-> {r.next_review_date : r \in last_review.review}]

\* the comparator given to sort_by
study_cmp(a, b) ==
    IF a.is_new /\ ~b.is_new THEN "Less"
    ELSE IF ~a.is_new /\ b.is_new THEN "Greater"
    ELSE IF a.next_review # {} /\ b.next_review # {}
    THEN LET a_date == CHOOSE d \in a.next_review : TRUE
             b_date == CHOOSE d \in b.next_review : TRUE
         IN  IF a_date < b_date THEN "Less"
             ELSE IF a_date > b_date THEN "Greater" ELSE "Equal"
    ELSE "Equal"

\* slice::sort_by on a short slice: each element in turn is moved left past
\* the elements it compares Less than
RECURSIVE insert_tail(_, _)
insert_tail(sorted, x) ==
    IF sorted = <<>> THEN <<x>>
    ELSE IF study_cmp(x, sorted[Len(sorted)]) = "Less"
    THEN Append(insert_tail(Front(sorted), x), sorted[Len(sorted)])
    ELSE Append(sorted, x)

RECURSIVE sort_by(_)
sort_by(v) ==
    IF Len(v) <= 1 THEN v
    ELSE insert_tail(sort_by(Front(v)), v[Len(v)])

\* the words of a deck
words_of(deck_id) == {w \in DeckWordIds : <<deck_id, w>> \in deck_words}

\* GET /{deck_id}/study of the deck router: the response; loaded is the order in which
\* the store returns the words of the deck, failing the words whose
\* get_last_review fails
study_response(session, deck_id, fault, loaded, failing) ==
    LET owner == {d.user_id : d \in {x \in decks : x.deck_id = deck_id}}
        h == "start_study_session"
    IN  IF session = NoUser THEN ReplyWith(h, "UNAUTHORIZED", <<>>)
        ELSE IF fault = "pool" THEN ReplyWith(h, "INTERNAL_SERVER_ERROR", <<>>)
        ELSE IF fault = "decks" \/ owner = {} THEN ReplyWith(h, "NOT_FOUND", <<>>)
        ELSE IF owner # {session} THEN ReplyWith(h, "FORBIDDEN", <<>>)
        ELSE IF fault = "deck_words"
        THEN ReplyWith(h, "INTERNAL_SERVER_ERROR", <<>>)
        ELSE ReplyWith(h, "OK",
                 sort_by([i \in 1 .. Len(loaded) |->
                             StudyWord(session, deck_id, loaded[i],
                                       loaded[i] \in failing)]))

start_study_session(session, deck_id, fault, loaded, failing) ==
    /\ calls' = calls + 1
    /\ request' = 0
    /\ response' = study_response(session, deck_id, fault, loaded, failing)
    /\ store_ops' = IF session = NoUser THEN 0
                    ELSE IF fault = "pool" THEN 1
                    ELSE IF response'.status \in {"NOT_FOUND", "FORBIDDEN"} THEN 2
                    ELSE IF fault = "deck_words" THEN 3
                    ELSE 3 + Len(loaded)
    /\ UNCHANGED <<dict, decks, deck_words, srs_reviews, now, inflight>>

\* the rows the filter keeps up to but not including the instant itself
due_rows_before(user_id, clock) ==
    {r \in srs_reviews : r.user_id = user_id /\ r.next_review_date < clock}

\* the rows of srs_reviews that the filter of the due queries keeps
due_rows(user_id, clock) ==
    {r \in srs_reviews : r.user_id = user_id /\ r.next_review_date <= clock}

\* GET /due of the deck router: the response; loaded is the order in which the store
\* returns the rows
due_words_response(session, fault, loaded) ==
    LET h == "get_all_due_words"
    IN  IF session = NoUser THEN ReplyWith(h, "UNAUTHORIZED", <<>>)
        ELSE IF fault \in {"pool", "select"}
        THEN ReplyWith(h, "INTERNAL_SERVER_ERROR", <<>>)
        ELSE ReplyWith(h, "OK",
                 [i \in 1 .. Len(loaded) |->
                     [word_id |-> loaded[i].word_id,
                      deck_id |-> loaded[i].deck_id,
                      is_new |-> FALSE,
                      last_performance |-> {loaded[i].performance},
                      next_review |-> {loaded[i].next_review_date}]])

get_all_due_words(session, fault, loaded) ==
    /\ calls' = calls + 1
    /\ request' = 0
    /\ response' = due_words_response(session, fault, loaded)
    /\ store_ops' = IF session = NoUser THEN 0 ELSE IF fault = "pool" THEN 1 ELSE 2
    /\ UNCHANGED <<dict, decks, deck_words, srs_reviews, now, inflight>>

\* GET /due-count of the deck router: the response, the count as its one element
due_count_response(session, fault) ==
    LET h == "get_due_words_count"
    IN  IF session = NoUser THEN ReplyWith(h, "UNAUTHORIZED", <<>>)
        ELSE IF fault \in {"pool", "select"}
        THEN ReplyWith(h, "INTERNAL_SERVER_ERROR", <<>>)
        ELSE ReplyWith(h, "OK", <<Cardinality(due_rows(session, now))>>)

get_due_words_count(session, fault) ==
    /\ calls' = calls + 1
    /\ request' = 0
    /\ response' = due_count_response(session, fault)
    /\ store_ops' = IF session = NoUser THEN 0 ELSE IF fault = "pool" THEN 1 ELSE 2
    /\ UNCHANGED <<dict, decks, deck_words, srs_reviews, now, inflight>>

\* ------------------------------------------------------------- the decks
\* the checks the handlers that change a deck start with: the status they
\* return with, or PASS.  absent is the status for a deck that is not there,
\* foreign the status for a deck of another user.
deck_check(session, deck_id, fault, absent, foreign) ==
    LET owner == {d.user_id : d \in {x \in decks : x.deck_id = deck_id}}
    IN  IF session = NoUser THEN "UNAUTHORIZED"
        ELSE IF fault \in {"pool", "decks"} THEN "INTERNAL_SERVER_ERROR"
        ELSE IF owner = {} THEN absent
        ELSE IF owner # {session} THEN foreign
        ELSE IF fault = "write" THEN "INTERNAL_SERVER_ERROR"
        ELSE "PASS"

deck_ops(session, fault) ==
    IF session = NoUser THEN 0 ELSE IF fault = "pool" THEN 1
    ELSE IF fault = "decks" THEN 2 ELSE 3

\* POST /add-word of the deck router; word_id is the row of words that the
\* word data of the request is found as, or inserted as
add_word_to_deck(session, deck_id, word_id, fault) ==
    LET check == deck_check(session, deck_id, fault, "NOT_FOUND", "FORBIDDEN")
        status == IF check # "PASS" THEN check
                  ELSE IF <<deck_id, word_id>> \in deck_words THEN "CONFLICT"
                  ELSE "OK"
    IN
    /\ calls' = calls + 1
    /\ request' = 0
    /\ response' = ReplyWith("add_word_to_deck", status, <<>>)
    /\ store_ops' = deck_ops(session, fault)
    /\ deck_words' = IF status = "OK" THEN deck_words \cup {<<deck_id, word_id>>}
                     ELSE deck_words
    /\ UNCHANGED <<dict, decks, srs_reviews, now, inflight>>

\* DELETE /{deck_id} of the deck router: the words of the deck and the deck,
\* in one transaction
delete_deck(session, deck_id, fault) ==
    LET status == deck_check(session, deck_id, fault, "NOT_FOUND", "NOT_FOUND")
    IN
    /\ calls' = calls + 1
    /\ request' = 0
    /\ response' = ReplyWith("delete_deck", IF status = "PASS" THEN "OK" ELSE status,
                             <<>>)
    /\ store_ops' = deck_ops(session, fault)
    /\ IF status = "PASS"
       THEN /\ deck_words' = {dw \in deck_words : dw[1] # deck_id}
            /\ decks' = {d \in decks : d.deck_id # deck_id}
       ELSE UNCHANGED <<decks, deck_words>>
    /\ UNCHANGED <<dict, srs_reviews, now, inflight>>

\* DELETE /{deck_id}/{word_id} of the deck router
delete_word_from_deck(session, deck_id, word_id, fault) ==
    LET status == deck_check(session, deck_id, fault, "NOT_FOUND", "NOT_FOUND")
    IN
    /\ calls' = calls + 1
    /\ request' = 0
    /\ response' = ReplyWith("delete_word_from_deck",
                             IF status = "PASS" THEN "OK" ELSE status, <<>>)
    /\ store_ops' = deck_ops(session, fault)
    /\ deck_words' = IF status = "PASS" THEN deck_words \ {<<deck_id, word_id>>}
                     ELSE deck_words
    /\ UNCHANGED <<dict, decks, srs_reviews, now, inflight>>

\* the interval the call would read is within the range the model computes in
Computable(session, deck_id, word_id) ==
    \A r \in get_last_review(srs_reviews, session, deck_id, word_id) :
        r.interval <= MaxInterval

\* ------------------------------------------------------------ the strings
\* A string is the sequence of its characters.  An ASCII character is named
\* by itself, another one by its code point: U0101 is a with macron, U00B7
\* the middle dot, U212A the Kelvin sign (whose lower case is k), U554A and
\* U963F are two ideographs of the block U+4E00..U+9FFF.
Cjk == {"U554A", "U963F"}
AsciiUpper == {"A", "B", "K"}
AsciiLower == {"a", "b", "k"}

\* char::to_lowercase
lower(c) ==
    CASE c = "A" -> "a" [] c = "B" -> "b" [] c \in {"K", "U212A"} -> "k" [] OTHER -> c

to_lowercase(str) == [i \in 1 .. Len(str) |-> lower(str[i])]

is_ascii_alphabetic(c) == c \in AsciiUpper \cup AsciiLower

\* the characters NORMALIZE_RE = [^a-zA-Z\u4e00-\u9fff] leaves in place
normal(c) == is_ascii_alphabetic(c) \/ c \in Cjk

\* the characters PUNCTUATION_RE = [.,;:!?] leaves in place
unpunctuated(c) == c \notin {".", ",", ";", ":", "!", "?"}

\* the bytes of the UTF-8 encoding of a character
len_utf8(c) ==
    IF c \in Cjk \cup {"U212A"} THEN 3 ELSE IF c \in {"U0101", "U00B7"} THEN 2 ELSE 1

\* str::len: the length in bytes
RECURSIVE len(_)
len(str) == IF str = <<>> THEN 0 ELSE len_utf8(Head(str)) + len(Tail(str))

\* unidecode: the ASCII transliteration
RECURSIVE unidecode(_)
unidecode(str) ==
    IF str = <<>> THEN <<>>
    ELSE (CASE Head(str) = "U0101" -> <<"a">>
            [] Head(str) = "U212A" -> <<"K">>
            [] Head(str) \in Cjk -> <<"A", " ">>
            [] OTHER -> <<Head(str)>>) \o unidecode(Tail(str))

\* str::contains, for a non-empty pattern
contains(str, pat) ==
    \E i \in 0 .. Len(str) - Len(pat) : SubSeq(str, i + 1, i + Len(pat)) = pat

Min(a, b) == IF a <= b THEN a ELSE b

\* --------------------------------------------------------- f32 products
\* the f32 quotient n as f32 / d as f32 of integers 0 <= n, 0 < d with
\* n / d >= 2^-5, in units of 2^-29
F32Div(n, d) ==
    IF n = 0 THEN 0
    ELSE LET k == CHOOSE e \in 0 .. 28 :
                     /\ n * Pow2(e) >= d * Pow2(23)
                     /\ n * Pow2(e) < d * Pow2(24)
             q == (n * Pow2(k)) \div d
             r == (n * Pow2(k)) % d
             m == IF 2 * r < d THEN q
                  ELSE IF 2 * r > d THEN q + 1
                  ELSE IF q % 2 = 0 THEN q ELSE q + 1
         IN  m * Pow2(29 - k)

\* the f32 product of the f32s x and y, all in units of 2^-29, for a
\* product of at least 2^-5: the 48-bit product of the two significands is
\* taken in halves of 12 bits and rounded to 24 bits, ties to even
F32Mul(x, y) ==
    IF x = 0 \/ y = 0 THEN 0
    ELSE
    LET sx == F32Step(x)
        sy == F32Step(y)
        mx == x \div sx
        my == y \div sy
        x1 == mx \div 4096
        x0 == mx % 4096
        y1 == my \div 4096
        y0 == my % 4096
        mid == x1 * y0 + x0 * y1
        low == (mid % 4096) * 4096 + x0 * y0
        hi == x1 * y1 + mid \div 4096 + low \div Pow2(24)
        lo == low % Pow2(24)
        \* the product of the significands is hi * 2^24 + lo
        wide == hi >= Pow2(23)
        m == IF wide THEN hi ELSE 2 * hi + lo \div Pow2(23)
        rest == IF wide THEN lo ELSE 2 * (lo % Pow2(23))
        rounded == IF rest < Pow2(23) THEN m
                   ELSE IF rest > Pow2(23) THEN m + 1
                   ELSE IF m % 2 = 0 THEN m ELSE m + 1
        scale == IF wide THEN (sx * sy) \div 32 ELSE (sx * sy) \div 64
    IN  rounded * scale

F32_0_6 == 322122560       \* 0.6f32 = 0x3F19999A, in units of 2^-29
F32_0_4 == 214748368       \* 0.4f32 = 0x3ECCCCCD, in units of 2^-29
F32_0_5 == 268435456       \* 0.5f32, in units of 2^-29
F32_0_3 == 161061280       \* 0.3f32 = 0x3E99999A, in units of 2^-29
F32_0_8_29 == 429496736    \* 0.8f32 = 0x3F4CCCCD, in units of 2^-29

\* ------------------------------------------------------------ SearchEngine
\* strsim::jaro_winkler is a dependency, not code of the repository; it is
\* modelled as the Jaro-Winkler similarity as the strsim crate computes it:
\* greedy matching within the window max(|a|, |b|) / 2 - 1, half the
\* mismatched matched pairs as transpositions, and a boost of 0.1 for each
\* of at most 4 common leading characters.
jaro_range(a, b) == Max(0, Max(Len(a), Len(b)) \div 2 - 1)

\* for each character of a from the i-th on, the index in b of the character
\* it is matched with, or 0; used are the indices of b matched already
RECURSIVE jaro_matches(_, _, _, _)
jaro_matches(a, b, i, used) ==
    IF i > Len(a) THEN <<>>
    ELSE LET window == Max(1, i - jaro_range(a, b))
                       .. Min(Len(b), i + jaro_range(a, b))
             free == {j \in window : b[j] = a[i] /\ j \notin used}
             j == IF free = {} THEN 0
                  ELSE CHOOSE k \in free : \A other \in free : k <= other
         IN  <<j>> \o jaro_matches(a, b, i + 1,
                                   IF j = 0 THEN used ELSE used \cup {j})

\* the Jaro similarity of two non-empty strings as the fraction <<n, d>>
jaro(a, b) ==
    LET match == jaro_matches(a, b, 1, {})
        a_matched == SelectSeq([i \in 1 .. Len(a) |-> IF match[i] = 0 THEN "" ELSE a[i]],
                               LAMBDA c : c # "")
        b_flags == {match[i] : i \in 1 .. Len(a)} \ {0}
        b_matched == SelectSeq([j \in 1 .. Len(b) |-> IF j \in b_flags THEN b[j] ELSE ""],
                               LAMBDA c : c # "")
        m == Len(a_matched)
        t == Cardinality({k \in 1 .. m : a_matched[k] # b_matched[k]}) \div 2
    IN  IF m = 0 THEN <<0, 1>>
        ELSE <<m * m * Len(b) + m * m * Len(a) + (m - t) * Len(a) * Len(b),
               3 * Len(a) * Len(b) * m>>

\* the Jaro-Winkler similarity as the fraction <<n, d>>
jaro_winkler(a, b) ==
    LET j == jaro(a, b)
        same == {k \in 1 .. Min(4, Min(Len(a), Len(b))) :
                    \A i \in 1 .. k : a[i] = b[i]}
        prefix == Cardinality(same)
    IN  <<10 * j[1] + prefix * (j[2] - j[1]), 10 * j[2]>>

\* the f32 nearest to the fraction n / d of [1/2, 1), in units of 2^-29
F32OfFraction(n, d) ==
    LET q1 == (n * 256) \div d
        r1 == (n * 256) % d
        q2 == (r1 * 256) \div d
        r2 == (r1 * 256) % d
        q3 == (r2 * 256) \div d
        r3 == (r2 * 256) % d
        q == q1 * 65536 + q2 * 256 + q3
        m == IF 2 * r3 < d THEN q
             ELSE IF 2 * r3 > d THEN q + 1
             ELSE IF q % 2 = 0 THEN q ELSE q + 1
    IN  32 * m

\* the similarity without its test for an empty string
similarity_unguarded(a, b, tie) ==
    IF a = b THEN One29
    ELSE IF contains(b, a)
    THEN LET ratio == F32Div(len(a), len(b))
         IN  F32Round(F32_0_6 + F32Mul(ratio, F32_0_4))
    ELSE IF contains(a, b)
    THEN LET ratio == F32Div(len(b), len(a))
         IN  F32Round(F32_0_5 + F32Mul(ratio, F32_0_3))
    ELSE LET jw == jaro_winkler(a, b)
             len_sim == F32Round(One29 - F32Div(IF len(a) >= len(b)
                                                THEN len(a) - len(b)
                                                ELSE len(b) - len(a),
                                                len(a) + len(b)))
         IN  IF \/ 20 * jw[1] > 17 * jw[2]
                \/ 20 * jw[1] = 17 * jw[2] /\ tie
             THEN F32OfFraction(jw[1], jw[2])
             ELSE F32Mul(len_sim, F32_0_3)

\* the similarity with the constants of the two containment branches
\* exchanged
similarity_weights_exchanged(a, b, tie) ==
    IF a = <<>> \/ b = <<>> THEN 0
    ELSE IF a = b THEN One29
    ELSE IF contains(b, a)
    THEN LET ratio == F32Div(len(a), len(b))
         IN  F32Round(F32_0_5 + F32Mul(ratio, F32_0_3))
    ELSE IF contains(a, b)
    THEN LET ratio == F32Div(len(b), len(a))
         IN  F32Round(F32_0_6 + F32Mul(ratio, F32_0_4))
    ELSE LET jw == jaro_winkler(a, b)
             len_sim == F32Round(One29 - F32Div(IF len(a) >= len(b)
                                                THEN len(a) - len(b)
                                                ELSE len(b) - len(a),
                                                len(a) + len(b)))
         IN  IF \/ 20 * jw[1] > 17 * jw[2]
                \/ 20 * jw[1] = 17 * jw[2] /\ tie
             THEN F32OfFraction(jw[1], jw[2])
             ELSE F32Mul(len_sim, F32_0_3)

\* the similarity asking for the Jaro-Winkler value before it looks for one
\* string in the other
similarity_jw_first(a, b, tie) ==
    IF a = <<>> \/ b = <<>> THEN 0
    ELSE IF a = b THEN One29
    ELSE LET jw == jaro_winkler(a, b)
             len_sim == F32Round(One29 - F32Div(IF len(a) >= len(b)
                                                THEN len(a) - len(b)
                                                ELSE len(b) - len(a),
                                                len(a) + len(b)))
         IN  IF \/ 20 * jw[1] > 17 * jw[2]
                \/ 20 * jw[1] = 17 * jw[2] /\ tie
             THEN F32OfFraction(jw[1], jw[2])
             ELSE IF contains(b, a)
             THEN LET ratio == F32Div(len(a), len(b))
                  IN  F32Round(F32_0_6 + F32Mul(ratio, F32_0_4))
             ELSE IF contains(a, b)
             THEN LET ratio == F32Div(len(b), len(a))
                  IN  F32Round(F32_0_5 + F32Mul(ratio, F32_0_3))
             ELSE F32Mul(len_sim, F32_0_3)

\* SearchEngine::similarity, in units of 2^-29.  tie tells whether the f64
\* that strsim returns for a Jaro-Winkler value of exactly 17/20 compares
\* greater than the f64 0.85: that depends on the order in which the crate's
\* version carries out its divisions.
similarity(a, b, tie) ==
    IF a = <<>> \/ b = <<>> THEN 0
    ELSE IF a = b THEN One29
    ELSE IF contains(b, a)
    THEN LET ratio == F32Div(len(a), len(b))
         IN  F32Round(F32_0_6 + F32Mul(ratio, F32_0_4))
    ELSE IF contains(a, b)
    THEN LET ratio == F32Div(len(b), len(a))
         IN  F32Round(F32_0_5 + F32Mul(ratio, F32_0_3))
    ELSE LET jw == jaro_winkler(a, b)
             len_sim == F32Round(One29 - F32Div(IF len(a) >= len(b)
                                                THEN len(a) - len(b)
                                                ELSE len(b) - len(a),
                                                len(a) + len(b)))
         IN  IF \/ 20 * jw[1] > 17 * jw[2]
                \/ 20 * jw[1] = 17 * jw[2] /\ tie
             THEN F32OfFraction(jw[1], jw[2])
             ELSE F32Mul(len_sim, F32_0_3)

\* the query as search_entries compares it: lower-cased, then stripped of
\* what NORMALIZE_RE matches
normalize(query) == SelectSeq(to_lowercase(query), normal)

\* the letters (char::is_alphabetic) kept first, then transliterated and
\* lower-cased
remove_tones_filter_first(pinyin) ==
    to_lowercase(unidecode(SelectSeq(pinyin,
        LAMBDA c : is_ascii_alphabetic(c) \/ c \in Cjk \cup {"U0101", "U212A"})))

remove_tones(pinyin) == SelectSeq(to_lowercase(unidecode(pinyin)), is_ascii_alphabetic)

\* the greatest of a set of scores, folded from 0.0
fold_max(scores) ==
    CHOOSE s \in scores \cup {0} : \A other \in scores \cup {0} : other <= s

max_similarity(a, options, tie) ==
    fold_max({similarity(a, options[i], tie) : i \in DOMAIN options})

\* the score of an entry for the normalized query under lang, an Option
\* held as a set of at most one string
entry_score(normalized, entry, lang, tie) ==
    IF lang = {} \/ lang = {"chinese"}
    THEN max_similarity(normalized,
                        <<entry.simplified,
                          entry.traditional,
                          to_lowercase(SelectSeq(entry.pinyin, unpunctuated)),
                          remove_tones(entry.pinyin)>>,
                        tie)
    ELSE fold_max({similarity(normalized,
                              to_lowercase(SelectSeq(entry.definitions[i], normal)),
                              tie) : i \in DOMAIN entry.definitions})

\* results.sort_by(|a, b| b.1.partial_cmp(&a.1).unwrap()) on a short slice:
\* each pair in turn is moved left past the pairs of a smaller score
RECURSIVE insert_scored(_, _)
insert_scored(sorted, x) ==
    IF sorted = <<>> THEN <<x>>
    ELSE IF sorted[Len(sorted)].score < x.score
    THEN Append(insert_scored(Front(sorted), x), sorted[Len(sorted)])
    ELSE Append(sorted, x)

RECURSIVE sort_by_score(_)
sort_by_score(v) ==
    IF Len(v) <= 1 THEN v
    ELSE insert_scored(sort_by_score(Front(v)), v[Len(v)])

\* the filter taking the score 0.8 itself as well
passes_from_0_8(scored) == scored.score >= F32_0_8_29

\* score > 0.8
passes(scored) == scored.score > F32_0_8_29

\* the results left in the order of the dictionary
rank_unsorted(results) == results

\* the sort of the results
rank(results) == sort_by_score(results)

\* SearchEngine::search_entries
search_entries(query, entries, lang, tie) ==
    LET normalized == normalize(query)
        scored == [i \in DOMAIN entries |->
                      [entry |-> entries[i],
                       score |-> entry_score(normalized, entries[i], lang, tie)]]
    IN  rank(SelectSeq(scored, passes))

\* one search, on the dictionary as loaded
search(q, lang, tie) ==
    /\ calls' = calls + 1
    /\ request' = [q |-> q, lang |-> lang]
    /\ response' = ReplyWith("search_entries", "OK",
                             search_entries(q, dict, lang, tie))
    /\ store_ops' = 0
    /\ UNCHANGED <<dict, decks, deck_words, srs_reviews, now, inflight>>

\* the sequences of at most n elements of S
SeqUpTo(S, n) == UNION {[1 .. k -> S] : k \in 0 .. n}

\* a small lexicon: ideographs, pinyin with tone digits, a tone mark,
\* punctuation and capitals, and glosses
Lexicon ==
    {[simplified |-> <<"U554A", "U963F">>, traditional |-> <<"U963F", "U554A">>,
      pinyin |-> <<"a", "1", " ", "b", "a", "1">>,
      definitions |-> << <<"a", "b", "b", "a">> >>],
     [simplified |-> <<"U963F">>, traditional |-> <<"U963F">>,
      pinyin |-> <<"U0101", "b">>,
      definitions |-> << <<"B", "a", " ", "b", ".">>, <<"a">> >>],
     [simplified |-> <<"U554A">>, traditional |-> <<"U554A">>,
      pinyin |-> <<"A", "b", ".", "a", " ", "b">>,
      definitions |-> << <<"a", "b", "a", "b">> >>]}

QueryChars == {"a", "b", "U554A"}
Langs == {{}, {"chinese"}, {"english"}}

\* the tables and the server before the first request
Store0 ==
    /\ decks = {[deck_id |-> 1, user_id |-> 1], [deck_id |-> 2, user_id |-> 1],
                [deck_id |-> 3, user_id |-> 2]}
    /\ deck_words = {<<1, 1>>, <<2, 1>>, <<1, 2>>, <<1, 3>>, <<3, 1>>}
    /\ srs_reviews = {}
    /\ now = 0
    /\ calls = 0
    /\ response = [handler |-> "none", status |-> "none"]
    /\ store_ops = 0
    /\ inflight = [w \in Workers |-> Idle]

\* the scheduler is modelled over an empty dictionary
Init == dict = <<>> /\ request = 0 /\ Store0

Review ==
    /\ calls < MaxCalls
    /\ \E session \in Sessions, deck_id \in AnyDeck,
          word_id \in WordIds, performance \in Performances, fault \in Faults :
          /\ Computable(session, deck_id, word_id)
          /\ record_word_review(session, deck_id, word_id, performance, fault)

Next == Review \/ Tick

Spec == Init /\ [][Next]_vars

\* one learner reviews one word of one deck again and again
Drill ==
    /\ calls < MaxDrill
    /\ \E performance \in 1 .. 5 :
          /\ Computable(1, 1, 1)
          /\ record_word_review(1, 1, 1, performance, "none")

NextDrill == Drill \/ Tick

SpecDrill == Init /\ [][NextDrill]_vars

\* one user rating one word of one deck well, again and again, at one time;
\* the ease factor of the item stays below 4.0, where the count of 2^-29
\* that holds it ends
GrowPerformances == {4, 5}

EaseInRange(session, deck_id, word_id) ==
    \A r \in get_last_review(srs_reviews, session, deck_id, word_id) :
        r.ease_factor <= I32_MAX - F32_0_1

Grow ==
    /\ calls < MaxGrow
    /\ \E performance \in GrowPerformances :
          /\ EaseInRange(1, 1, 1)
          /\ record_word_review(1, 1, 1, performance, "none")

NextGrow == Grow

SpecGrow == Init /\ [][NextGrow]_vars

\* requests served at the same time by the workers of the pool
Begin ==
    /\ calls < MaxConc
    /\ \E worker \in Workers, session \in Users, deck_id \in DeckIds,
          word_id \in WordIds, performance \in ConcPerformances,
          fault \in ConcFaults :
          begin_review(worker, session, deck_id, word_id, performance, fault)

Select ==
    \E worker \in Workers :
        /\ inflight[worker].pc = "select"
        /\ Computable(inflight[worker].user_id, inflight[worker].deck_id,
                      inflight[worker].word_id)
        /\ select_review(worker)

Upsert == \E worker \in Workers : upsert_review(worker)

NextConc == Begin \/ Select \/ Upsert \/ Tick

SpecConc == Init /\ [][NextConc]_vars

\* one learner reviews the words of their decks and asks for the study
\* list and the due list; any session asks too.  At most one read of a
\* review state fails in one study request.
StudyReview ==
    /\ calls < MaxStudy
    /\ \E deck_id \in {1, 2}, word_id \in DeckWordIds,
          performance \in StudyPerformances :
          /\ Computable(1, deck_id, word_id)
          /\ record_word_review(1, deck_id, word_id, performance, "none")

Study ==
    /\ calls < MaxStudy
    /\ \E session \in Sessions, deck_id \in AnyDeck, fault \in StudyFaults :
          IF study_response(session, deck_id, fault, <<>>, {}).status = "OK"
          THEN \E loaded \in Orders(words_of(deck_id)),
                  failing \in {{}} \cup {{w} : w \in words_of(deck_id)} :
                  start_study_session(session, deck_id, fault, loaded, failing)
          ELSE start_study_session(session, deck_id, fault, <<>>, {})

DueWords ==
    /\ calls < MaxStudy
    /\ \E session \in Sessions, fault \in DueFaults :
          \E loaded \in Orders(due_rows(session, now)) :
             get_all_due_words(session, fault, loaded)

DueCount ==
    /\ calls < MaxStudy
    /\ \E session \in Sessions, fault \in DueFaults :
          get_due_words_count(session, fault)

NextStudy == StudyReview \/ Study \/ DueWords \/ DueCount \/ Tick

SpecStudy == Init /\ [][NextStudy]_vars

\* the learners add words to decks, review them, remove words and decks
\* and ask for what is due; the store fails in the removals only (in that
\* of a deck, when the first learner removes the first deck), and only the
\* removal of a deck is asked for without a session
DeckAdd ==
    /\ calls < MaxEdits
    /\ \E session \in Users, deck_id \in AnyDeck, word_id \in WordIds :
          add_word_to_deck(session, deck_id, word_id, "none")

DeckDelete ==
    /\ calls < MaxEdits
    /\ \E session \in Sessions, deck_id \in AnyDeck, fault \in DeckFaults :
          /\ fault = "none" \/ (session = 1 /\ deck_id = 1)
          /\ delete_deck(session, deck_id, fault)

DeckDeleteWord ==
    /\ calls < MaxEdits
    /\ \E session \in Users, deck_id \in DeckIds, word_id \in WordIds,
          fault \in {"none", "write"} :
          delete_word_from_deck(session, deck_id, word_id, fault)

DeckReview ==
    /\ calls < MaxEdits
    /\ \E session \in Users, deck_id \in DeckIds, word_id \in WordIds,
          performance \in StudyPerformances :
          /\ Computable(session, deck_id, word_id)
          /\ record_word_review(session, deck_id, word_id, performance, "none")

DeckDue ==
    /\ calls < MaxEdits
    /\ \E session \in Users : \E loaded \in Orders(due_rows(session, now)) :
          get_all_due_words(session, "none", loaded)

DeckDueCount ==
    /\ calls < MaxEdits
    /\ \E session \in Users : get_due_words_count(session, "none")

NextDecks ==
    DeckAdd \/ DeckDelete \/ DeckDeleteWord \/ DeckReview \/ DeckDue \/ DeckDueCount
    \/ Tick

SpecDecks == Init /\ [][NextDecks]_vars

\* one search on one dictionary
InitSearch == dict \in SeqUpTo(Lexicon, MaxDict) /\ request = 0 /\ Store0

Search ==
    /\ calls = 0
    /\ \E q \in SeqUpTo(QueryChars, MaxQueryLen), lang \in Langs, tie \in BOOLEAN :
          search(q, lang, tie)

NextSearch == Search

SpecSearch == InitSearch /\ [][NextSearch]_vars

\* one search for the script form of an entry of the dictionary, or for a
\* query of digits, blanks and punctuation, on a dictionary whose entries
\* carry Latin capitals, digits and a middle dot in their script forms and
\* a gloss of digits
MixedLexicon ==
    {[simplified |-> <<"A", "U554A">>, traditional |-> <<"A", "U554A">>,
      pinyin |-> <<"A", " ", "b", "a", "4">>,
      definitions |-> << <<"a", "b">> >>],
     [simplified |-> <<"3", "B">>, traditional |-> <<"3", "B">>,
      pinyin |-> <<"a", "1", " ", "b", "1">>,
      definitions |-> << <<"1", "1">>, <<"b", "a">> >>],
     [simplified |-> <<"U554A", "U00B7", "U963F">>,
      traditional |-> <<"U963F", "U00B7", "U963F">>,
      pinyin |-> <<"a", "1", " ", "a", "1">>,
      definitions |-> << <<"a", "a">> >>],
     [simplified |-> <<"U963F">>, traditional |-> <<"U554A">>,
      pinyin |-> <<"U0101">>,
      definitions |-> << <<"a", ".">> >>]}

OddQueries == {<<>>, <<"1">>, <<" ">>, <<"1", "1">>, <<".", " ">>, <<"U00B7">>, <<"b">>}

InitLookup == dict \in SeqUpTo(MixedLexicon, MaxDict) /\ request = 0 /\ Store0

Lookup ==
    /\ calls = 0
    /\ \E q \in OddQueries \cup {dict[k].simplified : k \in DOMAIN dict}
                         \cup {dict[k].traditional : k \in DOMAIN dict},
          lang \in Langs, tie \in BOOLEAN :
          search(q, lang, tie)

NextLookup == Lookup

SpecLookup == InitLookup /\ [][NextLookup]_vars

\* one text, normalized as a query is or stripped of its tones
TextChars == {"a", "A", "U212A", "U0101", "U554A", "1", " ", "."}

InitNorm ==
    /\ dict = <<>>
    /\ request \in {[text |-> t] : t \in SeqUpTo(TextChars, MaxTextLen)}
    /\ Store0

apply(handler, text) ==
    /\ calls' = calls + 1
    /\ response' = ReplyWith(handler, "OK", text)
    /\ store_ops' = 0
    /\ UNCHANGED <<dict, decks, deck_words, srs_reviews, now, request, inflight>>

Normalize == calls = 0 /\ apply("normalize", normalize(request.text))

RemoveTones == calls = 0 /\ apply("remove_tones", remove_tones(request.text))

NextNorm == Normalize \/ RemoveTones

SpecNorm == InitNorm /\ [][NextNorm]_vars

\* the similarity of one pair of strings
Cat == <<"c", "a", "t">>
Category == <<"c", "a", "t", "e", "g", "o", "r", "y">>
SimChars == {"a", "b", "U554A"}
SimPairs ==
    [a : SeqUpTo(SimChars, MaxSimLen), b : SeqUpTo(SimChars, MaxSimLen)]
    \cup {[a |-> Cat, b |-> Category], [a |-> Category, b |-> Cat]}

InitSim == dict = <<>> /\ request \in SimPairs /\ Store0

compare(a, b, tie) ==
    /\ calls' = calls + 1
    /\ response' = ReplyWith("similarity", "OK", <<similarity(a, b, tie)>>)
    /\ store_ops' = 0
    /\ UNCHANGED <<dict, decks, deck_words, srs_reviews, now, request, inflight>>

Sim == calls = 0 /\ \E tie \in BOOLEAN : compare(request.a, request.b, tie)

NextSim == Sim

SpecSim == InitSim /\ [][NextSim]_vars

\* ------------------------------------------------------------- properties
\* this step serves a request
Served == calls' = calls + 1

\* ... and answers it with success
Accepted == Served /\ response'.status = "OK"

\* this step serves the request (session, deck_id, word_id, performance) and
\* answers it with success, which no request does on a fault
Reviewed(session, deck_id, word_id, performance) ==
    /\ Accepted
    /\ request' = performance
    /\ record_word_review(session, deck_id, word_id, performance, "none")

\* the row the request (user_id, deck_id, word_id, performance) wrote at clock
Written(rows, user_id, deck_id, word_id, performance, clock) ==
    {r \in rows : /\ r.user_id = user_id /\ r.deck_id = deck_id
                  /\ r.word_id = word_id /\ r.performance = performance
                  /\ r.review_date = clock}

\* the state getReviewState(user_id, deck_id, word_id) returns
Prior(user_id, deck_id, word_id) ==
    CHOOSE r \in get_last_review(srs_reviews, user_id, deck_id, word_id) : TRUE

Scheduled(user_id, deck_id, word_id) ==
    get_last_review(srs_reviews, user_id, deck_id, word_id) # {}

\* k hundredths, in units of 2^-29, rounded down
Hundredths29(k) == k * (One29 \div 100) + (k * (One29 % 100)) \div 100

\* C1: a review whose performance is outside 1..5 is answered with
\* BAD_REQUEST (InvalidPerformance) before any store operation, and leaves
\* every row of srs_reviews as it was.
C1_InvalidPerformanceRejected ==
    [][Served /\ request' \notin 1 .. 5
       => /\ response'.status = "BAD_REQUEST"
          /\ store_ops' = 0
          /\ srs_reviews' = srs_reviews]_vars

\* a review was rejected for its performance while review state existed
C1_Witness ==
    /\ request \in {0, 6}
    /\ response.status = "BAD_REQUEST"
    /\ store_ops = 0
    /\ srs_reviews # {}

\* C2: every persisted row has ease_factor >= 1.3 (the f32 1.3 of the
\* source), interval >= 1 and next_review_date = review_date + interval days.
C2_RowInvariant ==
    \A r \in srs_reviews :
        /\ r.ease_factor >= F32_1_3
        /\ r.interval >= 1
        /\ r.next_review_date = r.review_date + r.interval * TicksPerDay

\* the ease factor was driven down to its floor
C2_Witness ==
    \E r \in srs_reviews :
        /\ r.ease_factor = F32_1_3
        /\ r.performance = 1

\* C3: the first review of a word by a user (no row of that user and word)
\* with performance p in 1..5 stores ease_factor 2.5 and interval 1, 1, 3, 5, 7
\* for p = 1, 2, 3, 4, 5, with next_review_date = review_date + interval days.
C3_FirstReview ==
    [][Accepted /\ request' \in 1 .. 5 =>
       \A session \in Users, deck_id \in DeckIds, word_id \in WordIds,
          performance \in {request'} :
          /\ ~ \E r \in srs_reviews : r.user_id = session /\ r.word_id = word_id
          /\ Reviewed(session, deck_id, word_id, performance)
          => \E r \in Written(srs_reviews', session, deck_id, word_id,
                              performance, now) :
                /\ r.ease_factor = 5 * (One29 \div 2)
                /\ r.interval = <<1, 1, 3, 5, 7>>[performance]
                /\ r.next_review_date = r.review_date + r.interval * TicksPerDay]_vars

\* the one request served so far was a first review rated 5
C3_Witness ==
    /\ calls = 1
    /\ response.status = "OK"
    /\ \E r \in srs_reviews : r.performance = 5 /\ r.interval = 7

\* C4: a review with performance p in 1..5 of an item that has a review
\* state stores the ease factor max(1.3, e + 0.1 - (5 - p) * 0.08), e being
\* the ease factor stored before, to within one unit in the last place of
\* the f32 stored.
C4_EaseUpdate ==
    [][Accepted /\ request' \in 1 .. 5 =>
       \A session \in Users, deck_id \in DeckIds, word_id \in WordIds,
          performance \in {request'} :
          /\ Scheduled(session, deck_id, word_id)
          /\ Reviewed(session, deck_id, word_id, performance)
          => LET e == Prior(session, deck_id, word_id).ease_factor
                 sum == e + Hundredths29(10 - (5 - performance) * 8)
                 floor13 == One29 + (3 * One29) \div 10
             IN  \E r \in Written(srs_reviews', session, deck_id, word_id,
                                  performance, now) :
                    /\ r.ease_factor >= Max(floor13, sum) - F32Step(r.ease_factor)
                    /\ r.ease_factor <= Max(floor13, sum) + 1
                                           + F32Step(r.ease_factor)]_vars

\* an item was reviewed again and its ease factor moved off the initial 2.5
C4_Witness ==
    /\ response.status = "OK"
    /\ calls >= 2
    /\ \E r \in srs_reviews : r.ease_factor # 5 * (One29 \div 2)

\* C5: a review with performance 2 of an item that has a review state
\* stores the interval max(1, round(interval * 0.8)), rounding to nearest.
C5_RoundedPenalty ==
    [][Accepted /\ request' = 2 =>
       \A session \in Users, deck_id \in DeckIds, word_id \in WordIds :
          /\ Scheduled(session, deck_id, word_id)
          /\ Reviewed(session, deck_id, word_id, 2)
          => LET i == Prior(session, deck_id, word_id).interval
             IN  \E r \in Written(srs_reviews', session, deck_id, word_id, 2, now) :
                    r.interval = Max(1, (i * 8 + 5) \div 10)]_vars

\* i * x / 2^29 rounded to the nearest integer, half up, in exact arithmetic
RoundedProduct(i, x) ==
    (i * (x \div 65536) + (i * (x % 65536) + 268435456) \div 65536) \div 8192

\* C6: a review of an item that has a review state stores interval 1 when
\* performance is 1, and round(interval * ease') when performance is 3, 4 or
\* 5, ease' being the ease factor this same review stores and the product
\* being an f32 product: the interval stored is interval * y rounded to the
\* nearest integer for a y within one unit in the last place of ease'.
C6_IntervalUpdate ==
    [][Accepted /\ request' \in {1, 3, 4, 5} =>
       \A session \in Users, deck_id \in DeckIds, word_id \in WordIds,
          performance \in {request'} :
          /\ Scheduled(session, deck_id, word_id)
          /\ Reviewed(session, deck_id, word_id, performance)
          => LET i == Prior(session, deck_id, word_id).interval
             IN  \E r \in Written(srs_reviews', session, deck_id, word_id,
                                  performance, now) :
                    IF performance = 1 THEN r.interval = 1
                    ELSE LET ulp == F32Step(r.ease_factor)
                         IN  /\ RoundedProduct(i, r.ease_factor - ulp) <= r.interval
                             /\ r.interval <= RoundedProduct(i, r.ease_factor + ulp)]_vars

\* an interval grew past every first-review interval
C6_Witness ==
    /\ response.status = "OK"
    /\ \E r \in srs_reviews : r.performance \in {3, 4, 5} /\ r.interval > 7

\* C7 as stated: a review with performance 1 of an item whose state is
\* {ease 2.5, interval 7} stores {ease 2.5, interval 1}.
C7_EaseUnchanged ==
    [][Accepted /\ request' = 1 =>
       \A session \in Users, deck_id \in DeckIds, word_id \in WordIds :
          /\ Scheduled(session, deck_id, word_id)
          /\ Prior(session, deck_id, word_id).ease_factor = 5 * (One29 \div 2)
          /\ Prior(session, deck_id, word_id).interval = 7
          /\ Reviewed(session, deck_id, word_id, 1)
          => \E r \in Written(srs_reviews', session, deck_id, word_id, 1, now) :
                r.ease_factor = 5 * (One29 \div 2) /\ r.interval = 1]_vars

\* C7 amended: a review with performance 1 of an item whose state is
\* {ease 2.5, interval 7} stores interval 1 and ease 2.28 = 2.5 + 0.1 - 4 * 0.08
\* (to within one unit in the last place of the f32): the ease formula applies
\* to performance 1 as to every other rating.
C7_EaseDecays ==
    [][Accepted /\ request' = 1 =>
       \A session \in Users, deck_id \in DeckIds, word_id \in WordIds :
          /\ Scheduled(session, deck_id, word_id)
          /\ Prior(session, deck_id, word_id).ease_factor = 5 * (One29 \div 2)
          /\ Prior(session, deck_id, word_id).interval = 7
          /\ Reviewed(session, deck_id, word_id, 1)
          => \E r \in Written(srs_reviews', session, deck_id, word_id, 1, now) :
                /\ r.interval = 1
                /\ r.ease_factor >= 2 * One29 + Hundredths29(28) - 128
                /\ r.ease_factor <= 2 * One29 + Hundredths29(28) + 1 + 128]_vars

\* the second request was a review rated 1 and left ease 2.28
C7_Witness ==
    /\ calls = 2
    /\ response.status = "OK"
    /\ \E r \in srs_reviews :
          /\ r.performance = 1
          /\ r.interval = 1
          /\ r.review_id = 1
          /\ r.ease_factor < 5 * (One29 \div 2)
          /\ r.ease_factor > 2 * One29

\* C8: a review takes the first-review rule only when no row of that user
\* and word exists; when one exists, under whichever deck it was recorded,
\* the new state is computed from that row's ease factor and interval.
C8_FirstRuleOnlyWithoutRow ==
    [][Accepted /\ request' \in 1 .. 5 =>
       \A session \in Users, deck_id \in DeckIds, word_id \in WordIds,
          performance \in {request'} :
          Reviewed(session, deck_id, word_id, performance)
          => LET rows == {r \in srs_reviews :
                             r.user_id = session /\ r.word_id = word_id}
                 params == IF rows = {}
                           THEN initial_srs_parameters(performance)
                           ELSE LET row == CHOOSE r \in rows : TRUE
                                IN  calculate_srs_parameters(performance,
                                        row.interval, row.ease_factor)
             IN  \E r \in Written(srs_reviews', session, deck_id, word_id,
                                  performance, now) :
                    r.interval = params[1] /\ r.ease_factor = params[2]]_vars

\* C9: a review recorded under one deck leaves the review state that
\* getReviewState returns for the same user and word under every other deck
\* as it was.
C9_OtherDecksUnchanged ==
    [][Accepted /\ request' \in 1 .. 5 =>
       \A session \in Users, deck_id \in DeckIds, word_id \in WordIds,
          performance \in {request'} :
          Reviewed(session, deck_id, word_id, performance)
          => \A other \in DeckIds \ {deck_id} :
                get_last_review(srs_reviews', session, other, word_id)
                = get_last_review(srs_reviews, session, other, word_id)]_vars

\* C10: srs_reviews holds at most one row per user and word, whatever the
\* order in which the selects and upserts of concurrent reviews are served.
C10_OneRowPerUserWord ==
    \A r \in srs_reviews, q \in srs_reviews :
        r.user_id = q.user_id /\ r.word_id = q.word_id => r = q

\* two reviews of one user and word both selected before either upserted,
\* both upserted, and one row is left
C10_Witness ==
    /\ \A w \in Workers : inflight[w].pc = "done" /\ ~inflight[w].found
    /\ inflight[1].user_id = inflight[2].user_id
    /\ inflight[1].word_id = inflight[2].word_id
    /\ Cardinality({r \in srs_reviews : /\ r.user_id = inflight[1].user_id
                                        /\ r.word_id = inflight[1].word_id}) = 1

\* C11: every change of srs_reviews made while reviews are served
\* concurrently is the upsert of one call, and leaves for that call's user
\* and word one row whose ease_factor, interval, review_date,
\* next_review_date and performance (and deck_id) are all the values that
\* one call computed; every other row is as it was, so that no state of the
\* table mixes the fields of two calls.
C11_RowFromOneCall ==
    [][srs_reviews' # srs_reviews =>
       \E worker \in Workers :
          LET req == inflight[worker]
          IN  /\ req.pc = "upsert"
              /\ inflight'[worker].pc = "done"
              /\ \A other \in Workers \ {worker} : inflight'[other] = inflight[other]
              /\ \E r \in srs_reviews' :
                    /\ r.user_id = req.user_id
                    /\ r.word_id = req.word_id
                    /\ r.deck_id = req.deck_id
                    /\ r.ease_factor = req.ease_factor
                    /\ r.interval = req.interval
                    /\ r.performance = req.performance
                    /\ r.review_date = now
                    /\ r.next_review_date = now + req.interval * TicksPerDay
                    /\ \A q \in srs_reviews' \ {r} :
                          /\ q \in srs_reviews
                          /\ ~(q.user_id = r.user_id /\ q.word_id = r.word_id)
                    /\ \A q \in srs_reviews :
                          \/ q.user_id = r.user_id /\ q.word_id = r.word_id
                          \/ q \in srs_reviews']_vars

\* two reviews of one user and word with different ratings both selected
\* before either upserted; both upserted, and the row left is the whole
\* state of the second
C11_Witness ==
    /\ \A w \in Workers : inflight[w].pc = "done" /\ ~inflight[w].found
    /\ inflight[1].user_id = inflight[2].user_id
    /\ inflight[1].word_id = inflight[2].word_id
    /\ inflight[1].performance = 5
    /\ inflight[2].performance = 2
    /\ \E r \in srs_reviews :
          /\ r.user_id = inflight[2].user_id
          /\ r.word_id = inflight[2].word_id
          /\ r.performance = 2
          /\ r.interval = inflight[2].interval
          /\ r.ease_factor = inflight[2].ease_factor

\* C12: a review that is answered with an error (BAD_REQUEST, UNAUTHORIZED,
\* FORBIDDEN, NOT_FOUND, or INTERNAL_SERVER_ERROR on a failure of the pool,
\* of a check, of the select or of the upsert) leaves srs_reviews exactly as
\* it was, and got to the upsert, the fifth store operation, at most once.
C12_ErrorLeavesState ==
    [][Served /\ response'.handler = "record_word_review"
              /\ response'.status # "OK"
       => /\ srs_reviews' = srs_reviews
          /\ store_ops' <= 5]_vars

\* the upsert of a review failed while review state existed
C12_Witness ==
    /\ response.handler = "record_word_review"
    /\ response.status = "INTERNAL_SERVER_ERROR"
    /\ store_ops = 5
    /\ request \in 1 .. 5
    /\ srs_reviews # {}

\* C18: a review that references a deck that does not exist, or a word
\* that is not in the referenced deck of the session's user, is answered
\* with NOT_FOUND and writes nothing.
C18_AbsentIsNotFound ==
    [][Served /\ request' \in 1 .. 5 =>
       \A session \in Users, deck_id \in AnyDeck, word_id \in WordIds :
          /\ \/ ~ \E d \in decks : d.deck_id = deck_id
             \/ /\ \E d \in decks : d.deck_id = deck_id /\ d.user_id = session
                /\ <<deck_id, word_id>> \notin deck_words
          /\ record_word_review(session, deck_id, word_id, request', "none")
          => /\ response'.status = "NOT_FOUND"
             /\ srs_reviews' = srs_reviews]_vars

\* the last request was handler and succeeded
Answered(handler) == response.handler = handler /\ response.status = "OK"

\* the rows of a user and word, under whichever deck
state_rows(user_id, word_id) ==
    {r \in srs_reviews : r.user_id = user_id /\ r.word_id = word_id}

\* the owner of the deck the items of a study list are of
owner_of(deck_id) == CHOOSE d \in decks : d.deck_id = deck_id

\* C13: the due list returned to a user at time now holds an item for a row
\* of that user exactly when the row's next_review_date <= now, holds
\* nothing else, the due count is the number of those rows, and neither
\* request changes decks, deck_words, srs_reviews or the clock.
C13_DueExactly ==
    [][Served /\ response'.status = "OK"
              /\ response'.handler \in {"get_all_due_words", "get_due_words_count"}
       => /\ UNCHANGED <<dict, decks, deck_words, srs_reviews, now>>
          /\ \A session \in Users :
                /\ (\E loaded \in Orders(due_rows(session, now)) :
                       get_all_due_words(session, "none", loaded))
                   => /\ \A r \in srs_reviews :
                            r.user_id = session
                            => ((\E i \in DOMAIN response'.body :
                                    /\ response'.body[i].word_id = r.word_id
                                    /\ response'.body[i].next_review
                                       = {r.next_review_date}
                                    /\ response'.body[i].last_performance
                                       = {r.performance})
                                <=> r.next_review_date <= now)
                      /\ \A i \in DOMAIN response'.body :
                            \E r \in srs_reviews :
                               /\ r.user_id = session
                               /\ r.word_id = response'.body[i].word_id
                               /\ r.next_review_date <= now
                      /\ \A i, j \in DOMAIN response'.body :
                            response'.body[i].word_id = response'.body[j].word_id
                            => i = j
                /\ get_due_words_count(session, "none")
                   => response'.body
                      = <<Cardinality({r \in srs_reviews :
                                          /\ r.user_id = session
                                          /\ r.next_review_date <= now})>>]_vars

\* the due list of a user holds the one word that fell due, at the instant
\* it fell due, and not the word reviewed at that same instant
C13_Witness ==
    /\ Answered("get_all_due_words")
    /\ Len(response.body) = 1
    /\ response.body[1].next_review = {now}
    /\ \E r \in srs_reviews : r.user_id = 1 /\ r.review_date = now
                              /\ r.next_review_date > now

\* C14: in a study list every word that has no row of the user and word
\* precedes every word that has one, whatever order the store returned the
\* deck's words in.
C14_NewFirst ==
    Answered("start_study_session")
    => \A i, j \in DOMAIN response.body :
          LET user_id == owner_of(response.body[i].deck_id).user_id
          IN  /\ state_rows(user_id, response.body[i].word_id) = {}
              /\ state_rows(user_id, response.body[j].word_id) # {}
              => i < j

\* C15: in a study list the words that have a row of the user and word
\* appear in non-decreasing order of that row's next_review_date, also when
\* the deck holds words never reviewed.
C15_DueOrder ==
    Answered("start_study_session")
    => \A i, j \in DOMAIN response.body :
          LET user_id == owner_of(response.body[i].deck_id).user_id
          IN  \A r \in state_rows(user_id, response.body[i].word_id),
                 q \in state_rows(user_id, response.body[j].word_id) :
                 i < j => r.next_review_date <= q.next_review_date

\* C16: an item of a study list has is_new = TRUE exactly when no row of the
\* user and word exists; an item whose word has a row carries is_new = FALSE,
\* the row's performance and the row's next_review_date.
C16_IsNewIffNoRow ==
    Answered("start_study_session")
    => \A i \in DOMAIN response.body :
          LET item == response.body[i]
              rows == state_rows(owner_of(item.deck_id).user_id, item.word_id)
          IN  /\ item.is_new <=> rows = {}
              /\ \A r \in rows : /\ item.last_performance = {r.performance}
                                 /\ item.next_review = {r.next_review_date}

\* C17: a study request during which the read of a word's review state
\* fails is answered with INTERNAL_SERVER_ERROR, never with a list.
C17_FailedReadFails ==
    [][Served /\ response'.handler = "start_study_session" =>
       \A session \in Users, deck_id \in DeckIds :
          \A loaded \in Orders(words_of(deck_id)), w \in words_of(deck_id) :
             /\ owner_of(deck_id).user_id = session
             /\ start_study_session(session, deck_id, "none", loaded, {w})
             => response'.status = "INTERNAL_SERVER_ERROR"]_vars

\* the score of an entry of the dictionary for the last query
score_of(entry, tie) ==
    entry_score(normalize(request.q), entry, request.lang, tie)

\* C19: every pair in the result of a search carries the score of its entry
\* for the query and mode, the greatest similarity over the entry's
\* candidates, and that score is strictly greater than 0.8 (the f32 0.8 of
\* the source).
C19_ScoresAbove ==
    Answered("search_entries")
    => \E tie \in BOOLEAN :
          \A i \in DOMAIN response.body :
             /\ response.body[i].score = score_of(response.body[i].entry, tie)
             /\ response.body[i].score > F32_0_8_29
             /\ \E k \in DOMAIN dict : dict[k] = response.body[i].entry

\* a search returned some entries and left out one whose score is 0.8 itself
C19_Witness ==
    /\ Answered("search_entries")
    /\ response.body # <<>>
    /\ \E k \in DOMAIN dict : score_of(dict[k], FALSE) = F32_0_8_29

\* C20: the result of a search holds each entry of the dictionary whose
\* score exceeds 0.8 as many times as the dictionary holds it, holds no
\* other entry, and its scores never increase along the sequence.
C20_AllRanked ==
    Answered("search_entries")
    => \E tie \in BOOLEAN :
          /\ \A entry \in Lexicon :
                Cardinality({i \in DOMAIN response.body :
                                response.body[i].entry = entry})
                = IF score_of(entry, tie) > F32_0_8_29
                  THEN Cardinality({k \in DOMAIN dict : dict[k] = entry})
                  ELSE 0
          /\ \A i, j \in DOMAIN response.body :
                i < j => response.body[i].score >= response.body[j].score

\* a search returned two entries in the reverse of their order in the
\* dictionary, the greater score first
C20_Witness ==
    /\ Answered("search_entries")
    /\ Len(response.body) = 2
    /\ Len(dict) = 2
    /\ response.body[1].score > response.body[2].score
    /\ response.body[1].entry = dict[2]
    /\ response.body[2].entry = dict[1]

\* the f32 s, in units of 2^-29, is base / 10 + weight / 10 * n / d to within
\* four units of 2^-24
CloseTo(s, base, weight, n, d) ==
    LET x == (10 * (s \div 32) - base * One24) * d - weight * One24 * n
    IN  -40 * d <= x /\ x <= 40 * d

\* the f32 s, in units of 2^-29, is the fraction n / d to within one unit of
\* 2^-24
IsFraction(s, n, d) ==
    LET q == (n * 4096) \div d
        r == (n * 4096) % d
        floor24 == q * 4096 + (r * 4096) \div d
    IN  s \div 32 \in {floor24, floor24 + 1}

\* C21: similarity is 0.0 when either string is empty; else 1.0 when they
\* are equal; else 0.6 + 0.4 * len(a) / len(b) when b contains a; else
\* 0.5 + 0.3 * len(b) / len(a) when a contains b; else the Jaro-Winkler value
\* when that exceeds 0.85; else (1 - |len(a) - len(b)| / (len(a) + len(b)))
\* * 0.3, each to within the rounding of f32, len being the length in bytes;
\* where the Jaro-Winkler value is 0.85 itself either of the last two is
\* taken.  The similarity of cat to category is about 0.75 and that of
\* category to cat about 0.61.
C21_Cascade ==
    Answered("similarity")
    => LET a == request.a
           b == request.b
           s == response.body[1]
           la == len(a)
           lb == len(b)
           jw == jaro_winkler(a, b)
           fallback == CloseTo(s, 0, 6, Min(la, lb), la + lb)
       IN  /\ IF a = <<>> \/ b = <<>> THEN s = 0
              ELSE IF a = b THEN s = One29
              ELSE IF contains(b, a) THEN CloseTo(s, 6, 4, la, lb)
              ELSE IF contains(a, b) THEN CloseTo(s, 5, 3, lb, la)
              ELSE IF 20 * jw[1] > 17 * jw[2] THEN IsFraction(s, jw[1], jw[2])
              ELSE IF 20 * jw[1] = 17 * jw[2]
              THEN IsFraction(s, jw[1], jw[2]) \/ fallback
              ELSE fallback
           /\ a = Cat /\ b = Category => CloseTo(s, 0, 6, 5, 4)
           /\ a = Category /\ b = Cat => CloseTo(s, 0, 49, 1, 8)

\* two strings neither of which contains the other got their Jaro-Winkler
\* value, above 0.85
C21_Witness ==
    /\ Answered("similarity")
    /\ ~contains(request.a, request.b)
    /\ ~contains(request.b, request.a)
    /\ response.body[1] > 460000000
    /\ response.body[1] < One29

\* C22: a search always answers, with a sequence no longer than the
\* dictionary; the sequence is empty when no entry scores above 0.8, and in
\* particular when the query is empty or normalizes to the empty string.
C22_NoErrorPath ==
    response.handler = "search_entries"
    => /\ response.status = "OK"
       /\ Len(response.body) <= Len(dict)
       /\ normalize(request.q) = <<>> => response.body = <<>>
       /\ (\A k \in DOMAIN dict, tie \in BOOLEAN :
              score_of(dict[k], tie) <= F32_0_8_29)
          => response.body = <<>>

\* a query of digits, which normalizes to the empty string, was searched in
\* the glosses of a dictionary that holds a gloss of digits, and nothing
\* was returned
C22_Witness ==
    /\ Answered("search_entries")
    /\ request.q = <<"1", "1">>
    /\ request.lang = {"english"}
    /\ \E k \in DOMAIN dict : \E i \in DOMAIN dict[k].definitions :
          dict[k].definitions[i] = request.q
    /\ response.body = <<>>

\* C23: normalizing a normalized query gives it back, and stripping the
\* tones of a tone-stripped romanization gives it back.
C23_Idempotent ==
    /\ Answered("normalize") => normalize(response.body) = response.body
    /\ Answered("remove_tones") => remove_tones(response.body) = response.body

\* the tones were stripped of a text that holds an ideograph, a letter with
\* a tone mark and a tone digit
C23_Witness ==
    /\ Answered("remove_tones")
    /\ request.text = <<"U554A", "U0101", "1">>
    /\ response.body = <<"a", "a">>

\* C24: every row a review writes is of the session's user, of a deck that
\* user owns when the review is served and of a word that is then in that
\* deck; a review of a deck of another user is answered with FORBIDDEN and
\* leaves srs_reviews as it was.
C24_OwnerOnly ==
    [][/\ srs_reviews' # srs_reviews
          => /\ response'.handler = "record_word_review"
             /\ \A r \in srs_reviews' \ srs_reviews :
                   /\ [deck_id |-> r.deck_id, user_id |-> r.user_id] \in decks
                   /\ <<r.deck_id, r.word_id>> \in deck_words
                   /\ record_word_review(r.user_id, r.deck_id, r.word_id,
                                         request', "none")
       /\ Served /\ response'.handler = "record_word_review" /\ request' \in 1 .. 5
          => \/ response'.status = "FORBIDDEN" /\ srs_reviews' = srs_reviews
             \/ ~ \E session \in Users, deck_id \in DeckIds, word_id \in WordIds :
                    /\ \E d \in decks : d.deck_id = deck_id /\ d.user_id # session
                    /\ record_word_review(session, deck_id, word_id, request',
                                          "none")]_vars

\* a review was refused with FORBIDDEN while every deck was there, so that
\* the deck was another user's, and while review state existed
C24_Witness ==
    /\ response.handler = "record_word_review"
    /\ response.status = "FORBIDDEN"
    /\ Cardinality(decks) = 3
    /\ srs_reviews # {}

\* both workers served a review of one user, deck and word, and no other
\* request was made
BothReviewed ==
    /\ calls = 2
    /\ \A w \in Workers : inflight[w].pc = "done"
    /\ inflight[1].user_id = inflight[2].user_id
    /\ inflight[1].deck_id = inflight[2].deck_id
    /\ inflight[1].word_id = inflight[2].word_id

\* the state left by a first review rated first and a second rated second
InTurn(first, second) ==
    LET one == initial_srs_parameters(first)
        two == calculate_srs_parameters(second, one[1], one[2])
    IN  <<two[1], two[2], second>>

\* C25 as stated: after two concurrent reviews of one user and item the row
\* is the one that the two reviews leave when served one after the other,
\* in one of the two orders.
C25_Serializable ==
    BothReviewed
    => \A r \in state_rows(inflight[1].user_id, inflight[1].word_id) :
          <<r.interval, r.ease_factor, r.performance>>
          \in {InTurn(inflight[1].performance, inflight[2].performance),
               InTurn(inflight[2].performance, inflight[1].performance)}

\* C25 amended: after two concurrent reviews of one user and item the row
\* is the whole state one of the two calls computed from what its select
\* found: the state the two leave when served in turn, if that call's
\* select found the other's row, and the state of a first review with that
\* call's performance, the other review being lost, if it found none.
C25_LastWriteWins ==
    BothReviewed
    => \A r \in state_rows(inflight[1].user_id, inflight[1].word_id) :
          \E w \in Workers :
             LET mine == inflight[w].performance
                 other == inflight[CHOOSE v \in Workers : v # w].performance
                 first == initial_srs_parameters(mine)
             IN  <<r.interval, r.ease_factor, r.performance>>
                 = IF inflight[w].found THEN InTurn(other, mine)
                   ELSE <<first[1], first[2], mine>>

\* two reviews rated 5 of an item never reviewed both selected before
\* either upserted: the row is that of one first review, interval 7
C25_Witness ==
    /\ BothReviewed
    /\ \A w \in Workers : ~inflight[w].found /\ inflight[w].performance = 5
    /\ \E r \in state_rows(inflight[1].user_id, inflight[1].word_id) :
          r.interval = 7 /\ r.ease_factor = F32_2_5

\* C26: whatever words were added, reviewed and removed and whatever decks
\* were removed before, every item of a due list is of a deck that is in
\* decks and of a word that is in that deck, and the due count counts those
\* items only.
C26_DueWithinDecks ==
    [][Served /\ response'.status = "OK"
              /\ response'.handler \in {"get_all_due_words", "get_due_words_count"}
       => /\ response'.handler = "get_all_due_words"
             => \A i \in DOMAIN response'.body :
                   /\ \E d \in decks : d.deck_id = response'.body[i].deck_id
                   /\ <<response'.body[i].deck_id, response'.body[i].word_id>>
                      \in deck_words
          /\ \A session \in Users :
                get_due_words_count(session, "none")
                => response'.body
                   = <<Cardinality({r \in due_rows(session, now) :
                          /\ \E d \in decks : d.deck_id = r.deck_id
                          /\ <<r.deck_id, r.word_id>> \in deck_words})>>]_vars

\* C27: a search of the script forms for the simplified or the traditional
\* form of an entry of the dictionary, the form not being empty, returns
\* that entry with the score 1.0, whatever characters the form holds.
C27_ScriptFormFound ==
    Answered("search_entries") /\ request.lang \in {{}, {"chinese"}}
    => \A k \in DOMAIN dict :
          /\ request.q # <<>>
          /\ request.q \in {dict[k].simplified, dict[k].traditional}
          => \E i \in DOMAIN response.body :
                /\ response.body[i].entry = dict[k]
                /\ response.body[i].score = One29

\* C28: for non-empty, unequal strings a and b one of which contains the
\* other, the similarity exceeds 0.8 exactly when b contains a and
\* 2 * len(a) > len(b); it does not when a contains b; and it is the value
\* of the containment branch, 0.6 + 0.4 * len(a) / len(b) or
\* 0.5 + 0.3 * len(b) / len(a), whatever the Jaro-Winkler value of the pair.
C28_ContainmentDecides ==
    Answered("similarity")
    => LET a == request.a
           b == request.b
           s == response.body[1]
       IN  /\ a # <<>> /\ b # <<>> /\ a # b
           /\ contains(b, a) \/ contains(a, b)
           => /\ s > F32_0_8_29 <=> contains(b, a) /\ 2 * len(a) > len(b)
              /\ contains(a, b) => s <= F32_0_8_29
              /\ IF contains(b, a) THEN CloseTo(s, 6, 4, len(a), len(b))
                 ELSE CloseTo(s, 5, 3, len(b), len(a))

\* a string was compared with one twice as long that contains it; the
\* Jaro-Winkler value of the pair exceeds 0.85 and the similarity is the
\* f32 0.8, which does not pass the filter
C28_Witness ==
    /\ Answered("similarity")
    /\ request.a # <<>>
    /\ contains(request.b, request.a)
    /\ 2 * len(request.a) = len(request.b)
    /\ 20 * jaro_winkler(request.a, request.b)[1]
       > 17 * jaro_winkler(request.a, request.b)[2]
    /\ response.body[1] = F32_0_8_29

\* C29: a review with performance 3, 4 or 5 of an item that has a review
\* state stores an interval that is not smaller than the interval stored
\* before, and a review with performance 2 stores one that is not larger.
C29_IntervalDirection ==
    [][Accepted /\ request' \in 2 .. 5 =>
       \A session \in Users, deck_id \in DeckIds, word_id \in WordIds,
          performance \in {request'} :
          /\ Scheduled(session, deck_id, word_id)
          /\ Reviewed(session, deck_id, word_id, performance)
          => LET i == Prior(session, deck_id, word_id).interval
             IN  \E r \in Written(srs_reviews', session, deck_id, word_id,
                                  performance, now) :
                    IF performance = 2 THEN r.interval <= i ELSE r.interval >= i]_vars

\* an item reviewed before was rated 2 and its interval is 1, which no
\* penalty can make smaller
C29_Witness ==
    /\ response.status = "OK"
    /\ calls >= 2
    /\ \E r \in srs_reviews :
          r.performance = 2 /\ r.interval = 1 /\ r.ease_factor < F32_2_5

\* C30: whatever reviews with a performance of 1 to 5 came before, the
\* interval computed by a review is below the i32 it would saturate at and
\* the next review date is a date that exists, so that no review ends in a
\* panic.
C30_NoArithmeticFailure ==
    /\ response.handler = "record_word_review" => response.status # "PANIC"
    /\ \A r \in srs_reviews : r.interval < I32_MAX

====
